---- MODULE Spec2Model ----
(***************************************************************************)
(* ROIBoxHead (maskrcnn_benchmark/modeling/roi_heads/box_head/box_head.py) *)
(*                                                                         *)
(* The head is orchestration code over opaque collaborators (feature       *)
(* extractor, predictor, post-processor, loss evaluator).  Collaborators   *)
(* are modelled as free term constructors: the value a collaborator        *)
(* returns is the tuple of its name and the arguments it was called with,  *)
(* so the provenance of every value the head returns can be read off.      *)
(* forward() is modelled statement by statement; pc is the line about to   *)
(* be executed.                                                            *)
(***************************************************************************)
EXTENDS Integers, Sequences, FiniteSets, TLC

NumFeatures == 2
NumProposals == 2
NumTargets == 1
NumDraws == 2
NumSelectors == 1

VARIABLES two_branch, training, clsnet_inds_, constructed, grad_enabled,
          args, locals, pc, calls, ret, prev

vars == <<two_branch, training, clsnet_inds_, constructed, grad_enabled,
          args, locals, pc, calls, ret, prev>>

(* Python's None and an unbound local name *)
None == <<"None">>
Undef == <<"undef">>

FeatureVals == {<<"F", i>> : i \in 1..NumFeatures}
ProposalVals == {<<"P", i>> : i \in 1..NumProposals}
TargetVals == {<<"T", i>> : i \in 1..NumTargets} \cup {None}
SelectorVals == {<<"inds", i>> : i \in 1..NumSelectors} \cup {None}

(* positions at which no call of forward is in progress *)
Rest == {"idle", "returned", "raised"}

----------------------------------------------------------------------------
(* collaborators: opaque functions of their arguments *)

(* BoxList subsampling is a random draw: d is the draw *)
subsample(ev, p, t, d) == <<"subsample", ev, p, t, d>>

feature_extractor(fe, f, p) == <<"x", fe, f, p>>

predictor(x, inds) ==
    [class_logits |-> <<"class_logits", "predictor", x, inds>>,
     box_regression |-> <<"box_regression", "predictor", x, inds>>,
     reconst_loss |-> <<"reconst_loss", "predictor", x, inds>>]

predictor_2nd(x) ==
    [class_logits |-> <<"class_logits", "predictor_2nd", x>>,
     box_regression |-> <<"box_regression", "predictor_2nd", x>>]

post_processor(cl, br, p) == <<"result", cl, br, p>>

loss_evaluator(ev, cl, br) ==
    [loss_classifier |-> <<"loss_classifier", ev, <<cl>>, <<br>>>>,
     loss_box_reg |-> <<"loss_box_reg", ev, <<cl>>, <<br>>>>]

(* a record of one collaborator invocation *)
Invocation(fn, a) == [fn |-> fn, args |-> a, grad |-> grad_enabled]

EmptyDict == [k \in {} |-> Undef]

NoLocals ==
    [proposals |-> Undef, proposals_2nd |-> Undef, x |-> Undef,
     class_logits |-> Undef, box_regression |-> Undef, reconst_loss |-> Undef,
     x_2nd |-> Undef, class_logits_2nd |-> Undef, box_regression_2nd |-> Undef,
     loss_classifier_2nd |-> Undef, loss_box_reg_2nd |-> Undef,
     loss_classifier |-> Undef, loss_box_reg |-> Undef,
     no_grad_prev |-> Undef]

NoArgs == [features |-> Undef, proposals |-> Undef, targets |-> Undef]

(* no inference call has returned since the last failure or training call *)
NoPrev == [features |-> Undef, proposals |-> Undef, targets |-> Undef,
           clsnet_inds_ |-> Undef, ret |-> Undef]

----------------------------------------------------------------------------
(* ROIBoxHead.__init__ : cfg.MODEL.ROI_HEADS.TWO_BRANCH is the input *)
Init ==
    /\ two_branch \in BOOLEAN
    /\ constructed = {"feature_extractor", "predictor", "post_processor", "loss_evaluator"}
                     \cup (IF two_branch
                           THEN {"feature_extractor_2nd", "predictor_2nd", "loss_evaluator_2nd"}
                           ELSE {})
    /\ training = TRUE
    /\ clsnet_inds_ = None
    /\ grad_enabled = TRUE
    /\ args = NoArgs
    /\ locals = NoLocals
    /\ pc = "idle"
    /\ calls = <<>>
    /\ ret = Undef
    /\ prev = NoPrev

(* the owner has taken the outcome of the previous call *)
Consumed ==
    /\ pc' = "idle"
    /\ args' = NoArgs
    /\ locals' = NoLocals
    /\ calls' = <<>>
    /\ ret' = Undef

(* nn.Module.train() / nn.Module.eval(), called by the owner between calls *)
train ==
    /\ pc \in Rest
    /\ training' = TRUE
    /\ Consumed
    /\ UNCHANGED <<two_branch, clsnet_inds_, constructed, grad_enabled, prev>>

eval ==
    /\ pc \in Rest
    /\ training' = FALSE
    /\ Consumed
    /\ UNCHANGED <<two_branch, clsnet_inds_, constructed, grad_enabled, prev>>

(* the owner assigns head.clsnet_inds_ between calls *)
SetClsnetInds ==
    /\ pc \in Rest
    /\ \E v \in SelectorVals : clsnet_inds_' = v
    /\ Consumed
    /\ UNCHANGED <<two_branch, training, constructed, grad_enabled, prev>>

(* entry of forward(features, proposals, targets=None) *)
Call ==
    /\ pc \in Rest
    /\ \E f \in FeatureVals, p \in ProposalVals, t \in TargetVals :
          /\ args' = [features |-> f, proposals |-> p, targets |-> t]
          /\ locals' = [NoLocals EXCEPT !.proposals = p]
    /\ pc' = "l44"
    /\ calls' = <<>>
    /\ ret' = Undef
    /\ UNCHANGED <<two_branch, training, clsnet_inds_, constructed, grad_enabled, prev>>

(* what no statement of forward assigns *)
Frame == UNCHANGED <<two_branch, training, clsnet_inds_, constructed, args>>

----------------------------------------------------------------------------
(* forward(), line by line *)

(* variant: the subsampling block is entered in inference mode too *)
L44_always ==
    /\ pc = "l44"
    /\ locals' = [locals EXCEPT !.no_grad_prev = grad_enabled]
    /\ grad_enabled' = FALSE
    /\ pc' = "l48"
    /\ UNCHANGED <<calls, ret, prev>>
    /\ Frame

(* 44, 47: if self.training: with torch.no_grad(): *)
L44 ==
    /\ pc = "l44"
    /\ IF training
       THEN /\ locals' = [locals EXCEPT !.no_grad_prev = grad_enabled]
            /\ grad_enabled' = FALSE
            /\ pc' = "l48"
       ELSE /\ pc' = "l54"
            /\ UNCHANGED <<locals, grad_enabled>>
    /\ UNCHANGED <<calls, ret, prev>>
    /\ Frame

(* variant: gradient mode switched off and on by hand, without a context
   manager, so that an exception skips the switch back on *)
L48_no_exit ==
    /\ pc = "l48"
    /\ calls' = Append(calls, Invocation("loss_evaluator.subsample",
                                         <<locals.proposals, args.targets>>))
    /\ \/ \E d \in 1..NumDraws :
             /\ locals' = [locals EXCEPT !.proposals =
                              subsample("loss_evaluator", locals.proposals, args.targets, d)]
             /\ pc' = IF two_branch THEN "l50" ELSE "l51"
             /\ UNCHANGED <<grad_enabled, ret, prev>>
             /\ Frame
       \/ /\ pc' = "raised"
          /\ prev' = NoPrev
          /\ UNCHANGED <<grad_enabled, ret, locals>>
          /\ Frame

(* 48: proposals = self.loss_evaluator.subsample(proposals, targets) *)
L48 ==
    /\ pc = "l48"
    /\ calls' = Append(calls, Invocation("loss_evaluator.subsample",
                                         <<locals.proposals, args.targets>>))
    /\ \/ \E d \in 1..NumDraws :
             /\ locals' = [locals EXCEPT !.proposals =
                              subsample("loss_evaluator", locals.proposals, args.targets, d)]
             /\ pc' = IF two_branch THEN "l50" ELSE "l51"
             /\ UNCHANGED <<grad_enabled, ret, prev>>
             /\ Frame
       \/ (* the exception leaves the with block: no_grad.__exit__ runs *)
          /\ grad_enabled' = locals.no_grad_prev
          /\ pc' = "raised"
          /\ prev' = NoPrev
          /\ UNCHANGED <<ret, locals>>
          /\ Frame

(* variant: the secondary evaluator subsamples the caller's proposals *)
L50_from_input ==
    /\ pc = "l50"
    /\ calls' = Append(calls, Invocation("loss_evaluator_2nd.subsample",
                                         <<args.proposals, args.targets>>))
    /\ \/ \E d \in 1..NumDraws :
             /\ locals' = [locals EXCEPT !.proposals_2nd =
                              subsample("loss_evaluator_2nd", args.proposals, args.targets, d)]
             /\ pc' = "l51"
             /\ UNCHANGED <<grad_enabled, ret, prev>>
             /\ Frame
       \/ /\ grad_enabled' = locals.no_grad_prev
          /\ pc' = "raised"
          /\ prev' = NoPrev
          /\ UNCHANGED <<ret, locals>>
          /\ Frame

(* 49-50: if self.two_branch:
            proposals_2nd = self.loss_evaluator_2nd.subsample(proposals, targets)
   `proposals` is the local name rebound on line 48 *)
L50 ==
    /\ pc = "l50"
    /\ calls' = Append(calls, Invocation("loss_evaluator_2nd.subsample",
                                         <<locals.proposals, args.targets>>))
    /\ \/ \E d \in 1..NumDraws :
             /\ locals' = [locals EXCEPT !.proposals_2nd =
                              subsample("loss_evaluator_2nd", locals.proposals, args.targets, d)]
             /\ pc' = "l51"
             /\ UNCHANGED <<grad_enabled, ret, prev>>
             /\ Frame
       \/ /\ grad_enabled' = locals.no_grad_prev
          /\ pc' = "raised"
          /\ prev' = NoPrev
          /\ UNCHANGED <<ret, locals>>
          /\ Frame

(* end of the with block: no_grad.__exit__ restores the saved mode *)
L51 ==
    /\ pc = "l51"
    /\ grad_enabled' = locals.no_grad_prev
    /\ pc' = "l54"
    /\ UNCHANGED <<locals, calls, ret, prev>>
    /\ Frame

(* 54: x = self.feature_extractor(features, proposals) *)
L54 ==
    /\ pc = "l54"
    /\ calls' = Append(calls, Invocation("feature_extractor",
                                         <<args.features, locals.proposals>>))
    /\ \/ /\ locals' = [locals EXCEPT !.x =
                           feature_extractor("feature_extractor", args.features, locals.proposals)]
          /\ pc' = "l56"
          /\ UNCHANGED <<ret, prev>>
       \/ /\ pc' = "raised"
          /\ prev' = NoPrev
          /\ UNCHANGED <<ret, locals>>
    /\ UNCHANGED grad_enabled
    /\ Frame

(* variant: the selector is consumed (reset to None) once it has been used *)
L56_reset ==
    /\ pc = "l56"
    /\ calls' = Append(calls, Invocation("predictor", <<locals.x, clsnet_inds_>>))
    /\ \/ /\ LET r == predictor(locals.x, clsnet_inds_)
             IN locals' = [locals EXCEPT !.class_logits = r.class_logits,
                                         !.box_regression = r.box_regression,
                                         !.reconst_loss = r.reconst_loss]
          /\ pc' = "l57"
          /\ UNCHANGED <<ret, prev>>
       \/ /\ pc' = "raised"
          /\ prev' = NoPrev
          /\ UNCHANGED <<ret, locals>>
    /\ clsnet_inds_' = None
    /\ UNCHANGED <<grad_enabled, two_branch, training, constructed, args>>

(* 56: class_logits, box_regression, reconst_loss =
           self.predictor(x, clsnet_inds=self.clsnet_inds_) *)
L56 ==
    /\ pc = "l56"
    /\ calls' = Append(calls, Invocation("predictor", <<locals.x, clsnet_inds_>>))
    /\ \/ /\ LET r == predictor(locals.x, clsnet_inds_)
             IN locals' = [locals EXCEPT !.class_logits = r.class_logits,
                                         !.box_regression = r.box_regression,
                                         !.reconst_loss = r.reconst_loss]
          /\ pc' = "l57"
          /\ UNCHANGED <<ret, prev>>
       \/ /\ pc' = "raised"
          /\ prev' = NoPrev
          /\ UNCHANGED <<ret, locals>>
    /\ UNCHANGED grad_enabled
    /\ Frame

(* variant: the selector test is dropped *)
L57_no_selector_test ==
    /\ pc = "l57"
    /\ pc' = IF ~training /\ two_branch THEN "l58" ELSE "l61"
    /\ UNCHANGED <<grad_enabled, locals, calls, ret, prev>>
    /\ Frame

(* variant: the mode test is dropped *)
L57_no_mode_test ==
    /\ pc = "l57"
    /\ pc' = IF two_branch /\ clsnet_inds_ = None THEN "l58" ELSE "l61"
    /\ UNCHANGED <<grad_enabled, locals, calls, ret, prev>>
    /\ Frame

(* 57: if not self.training and self.two_branch and self.clsnet_inds_ is None: *)
L57 ==
    /\ pc = "l57"
    /\ pc' = IF ~training /\ two_branch /\ clsnet_inds_ = None THEN "l58" ELSE "l61"
    /\ UNCHANGED <<grad_enabled, locals, calls, ret, prev>>
    /\ Frame

(* 58: x_2nd = self.feature_extractor_2nd(features, proposals) *)
L58 ==
    /\ pc = "l58"
    /\ calls' = Append(calls, Invocation("feature_extractor_2nd",
                                         <<args.features, locals.proposals>>))
    /\ \/ /\ locals' = [locals EXCEPT !.x_2nd =
                           feature_extractor("feature_extractor_2nd", args.features, locals.proposals)]
          /\ pc' = "l59"
          /\ UNCHANGED <<ret, prev>>
       \/ /\ pc' = "raised"
          /\ prev' = NoPrev
          /\ UNCHANGED <<ret, locals>>
    /\ UNCHANGED grad_enabled
    /\ Frame

(* 59: class_logits, box_regression = self.predictor_2nd(x_2nd) *)
L59 ==
    /\ pc = "l59"
    /\ calls' = Append(calls, Invocation("predictor_2nd", <<locals.x_2nd>>))
    /\ \/ /\ LET r == predictor_2nd(locals.x_2nd)
             IN locals' = [locals EXCEPT !.class_logits = r.class_logits,
                                         !.box_regression = r.box_regression]
          /\ pc' = "l61"
          /\ UNCHANGED <<ret, prev>>
       \/ /\ pc' = "raised"
          /\ prev' = NoPrev
          /\ UNCHANGED <<ret, locals>>
    /\ UNCHANGED grad_enabled
    /\ Frame

(* variant: the mode test is inverted *)
L61_inverted ==
    /\ pc = "l61"
    /\ pc' = IF training THEN "l62" ELSE "l65"
    /\ UNCHANGED <<grad_enabled, locals, calls, ret, prev>>
    /\ Frame

(* 61: if not self.training: *)
L61 ==
    /\ pc = "l61"
    /\ pc' = IF ~training THEN "l62" ELSE "l65"
    /\ UNCHANGED <<grad_enabled, locals, calls, ret, prev>>
    /\ Frame

(* 62-63: result = self.post_processor((class_logits, box_regression), proposals)
          return x, result, {} *)
L62 ==
    /\ pc = "l62"
    /\ calls' = Append(calls, Invocation("post_processor",
                          <<locals.class_logits, locals.box_regression, locals.proposals>>))
    /\ \/ /\ ret' = <<locals.x,
                      post_processor(locals.class_logits, locals.box_regression, locals.proposals),
                      EmptyDict>>
          /\ prev' = [features |-> args.features, proposals |-> args.proposals,
                      targets |-> args.targets, clsnet_inds_ |-> clsnet_inds_, ret |-> ret']
          /\ pc' = "returned"
       \/ /\ pc' = "raised"
          /\ prev' = NoPrev
          /\ UNCHANGED ret
    /\ UNCHANGED <<grad_enabled, locals>>
    /\ Frame

(* variant: the secondary branch is run whatever the configuration *)
L65_always ==
    /\ pc = "l65"
    /\ pc' = "l66"
    /\ UNCHANGED <<grad_enabled, locals, calls, ret, prev>>
    /\ Frame

(* 65: if self.two_branch: *)
L65 ==
    /\ pc = "l65"
    /\ pc' = IF two_branch THEN "l66" ELSE "l72"
    /\ UNCHANGED <<grad_enabled, locals, calls, ret, prev>>
    /\ Frame

(* 66: x_2nd = self.feature_extractor_2nd(features, proposals_2nd) *)
L66 ==
    /\ pc = "l66"
    /\ calls' = Append(calls, Invocation("feature_extractor_2nd",
                                         <<args.features, locals.proposals_2nd>>))
    /\ \/ /\ locals' = [locals EXCEPT !.x_2nd =
                           feature_extractor("feature_extractor_2nd", args.features, locals.proposals_2nd)]
          /\ pc' = "l67"
          /\ UNCHANGED <<ret, prev>>
       \/ /\ pc' = "raised"
          /\ prev' = NoPrev
          /\ UNCHANGED <<ret, locals>>
    /\ UNCHANGED grad_enabled
    /\ Frame

(* 67: class_logits_2nd, box_regression_2nd = self.predictor_2nd(x_2nd) *)
L67 ==
    /\ pc = "l67"
    /\ calls' = Append(calls, Invocation("predictor_2nd", <<locals.x_2nd>>))
    /\ \/ /\ LET r == predictor_2nd(locals.x_2nd)
             IN locals' = [locals EXCEPT !.class_logits_2nd = r.class_logits,
                                         !.box_regression_2nd = r.box_regression]
          /\ pc' = "l68"
          /\ UNCHANGED <<ret, prev>>
       \/ /\ pc' = "raised"
          /\ prev' = NoPrev
          /\ UNCHANGED <<ret, locals>>
    /\ UNCHANGED grad_enabled
    /\ Frame

(* 68-70: loss_classifier_2nd, loss_box_reg_2nd = self.loss_evaluator_2nd(
              [class_logits_2nd], [box_regression_2nd]) *)
L68 ==
    /\ pc = "l68"
    /\ calls' = Append(calls, Invocation("loss_evaluator_2nd",
                          <<<<locals.class_logits_2nd>>, <<locals.box_regression_2nd>>>>))
    /\ \/ /\ LET r == loss_evaluator("loss_evaluator_2nd",
                                     locals.class_logits_2nd, locals.box_regression_2nd)
             IN locals' = [locals EXCEPT !.loss_classifier_2nd = r.loss_classifier,
                                         !.loss_box_reg_2nd = r.loss_box_reg]
          /\ pc' = "l72"
          /\ UNCHANGED <<ret, prev>>
       \/ /\ pc' = "raised"
          /\ prev' = NoPrev
          /\ UNCHANGED <<ret, locals>>
    /\ UNCHANGED grad_enabled
    /\ Frame

(* 72-74: loss_classifier, loss_box_reg = self.loss_evaluator(
              [class_logits], [box_regression]) *)
L72 ==
    /\ pc = "l72"
    /\ calls' = Append(calls, Invocation("loss_evaluator",
                          <<<<locals.class_logits>>, <<locals.box_regression>>>>))
    /\ \/ /\ LET r == loss_evaluator("loss_evaluator",
                                     locals.class_logits, locals.box_regression)
             IN locals' = [locals EXCEPT !.loss_classifier = r.loss_classifier,
                                         !.loss_box_reg = r.loss_box_reg]
          /\ pc' = "l75"
          /\ UNCHANGED <<ret, prev>>
       \/ /\ pc' = "raised"
          /\ prev' = NoPrev
          /\ UNCHANGED <<ret, locals>>
    /\ UNCHANGED grad_enabled
    /\ Frame

(* variant: the two-branch dictionary is built without reconst_loss *)
L75_no_reconst ==
    /\ pc = "l75"
    /\ ret' = IF two_branch
              THEN <<locals.x, locals.proposals,
                     [loss_classifier |-> locals.loss_classifier,
                      loss_box_reg |-> locals.loss_box_reg,
                      loss_classifier_2nd |-> locals.loss_classifier_2nd,
                      loss_box_reg_2nd |-> locals.loss_box_reg_2nd]>>
              ELSE <<locals.x, locals.proposals,
                     [loss_classifier |-> locals.loss_classifier,
                      loss_box_reg |-> locals.loss_box_reg,
                      reconst_loss |-> locals.reconst_loss]>>
    /\ prev' = NoPrev
    /\ pc' = "returned"
    /\ UNCHANGED <<grad_enabled, locals, calls>>
    /\ Frame

(* variant: the two-branch return hands back the secondary proposals *)
L75_proposals_2nd ==
    /\ pc = "l75"
    /\ ret' = IF two_branch
              THEN <<locals.x, locals.proposals_2nd,
                     [loss_classifier |-> locals.loss_classifier,
                      loss_box_reg |-> locals.loss_box_reg,
                      loss_classifier_2nd |-> locals.loss_classifier_2nd,
                      loss_box_reg_2nd |-> locals.loss_box_reg_2nd,
                      reconst_loss |-> locals.reconst_loss]>>
              ELSE <<locals.x, locals.proposals,
                     [loss_classifier |-> locals.loss_classifier,
                      loss_box_reg |-> locals.loss_box_reg,
                      reconst_loss |-> locals.reconst_loss]>>
    /\ prev' = NoPrev
    /\ pc' = "returned"
    /\ UNCHANGED <<grad_enabled, locals, calls>>
    /\ Frame

(* 75-89: return x, proposals, dict(...) *)
L75 ==
    /\ pc = "l75"
    /\ ret' = IF two_branch
              THEN <<locals.x, locals.proposals,
                     [loss_classifier |-> locals.loss_classifier,
                      loss_box_reg |-> locals.loss_box_reg,
                      loss_classifier_2nd |-> locals.loss_classifier_2nd,
                      loss_box_reg_2nd |-> locals.loss_box_reg_2nd,
                      reconst_loss |-> locals.reconst_loss]>>
              ELSE <<locals.x, locals.proposals,
                     [loss_classifier |-> locals.loss_classifier,
                      loss_box_reg |-> locals.loss_box_reg,
                      reconst_loss |-> locals.reconst_loss]>>
    /\ prev' = NoPrev
    /\ pc' = "returned"
    /\ UNCHANGED <<grad_enabled, locals, calls>>
    /\ Frame

Next ==
    \/ train \/ eval \/ SetClsnetInds \/ Call
    \/ L44 \/ L48 \/ L50 \/ L51 \/ L54 \/ L56 \/ L57 \/ L58 \/ L59
    \/ L61 \/ L62 \/ L65 \/ L66 \/ L67 \/ L68 \/ L72 \/ L75

Spec == Init /\ [][Next]_vars

----------------------------------------------------------------------------
(* vocabulary of the properties *)

(* the names of the collaborators invoked so far by the current call, in order *)
Fns == [i \in 1..Len(calls) |-> calls[i].fn]

Invoked(fn) == \E i \in 1..Len(calls) : calls[i].fn = fn

Count(fn) == Cardinality({i \in 1..Len(calls) : calls[i].fn = fn})

TheCall(fn) == calls[CHOOSE i \in 1..Len(calls) : calls[i].fn = fn]

SecondaryFns == {"loss_evaluator_2nd.subsample", "feature_extractor_2nd",
                 "predictor_2nd", "loss_evaluator_2nd"}

SecondaryFields == {"feature_extractor_2nd", "predictor_2nd", "loss_evaluator_2nd"}

SubsampleFns == {"loss_evaluator.subsample", "loss_evaluator_2nd.subsample"}

LossFns == {"loss_evaluator", "loss_evaluator_2nd"}

SecondaryKeys == {"loss_classifier_2nd", "loss_box_reg_2nd"}

IsPrefix(a, b) == Len(a) <= Len(b) /\ a = SubSeq(b, 1, Len(a))

SingleBranchTrainingOrder ==
    <<"loss_evaluator.subsample", "feature_extractor", "predictor", "loss_evaluator">>

TwoBranchTrainingOrder ==
    <<"loss_evaluator.subsample", "loss_evaluator_2nd.subsample",
      "feature_extractor", "predictor",
      "feature_extractor_2nd", "predictor_2nd", "loss_evaluator_2nd",
      "loss_evaluator">>

SingleBranchInferenceOrder == <<"feature_extractor", "predictor", "post_processor">>

(* C1: a call that returns in inference mode returns an empty loss mapping
   and, as second value, what the post-processor returned; a call in
   training mode returns a non-empty loss mapping and never invokes the
   post-processor nor returns a post-processor result. *)
C1_ModeDecidesOutput ==
    /\ (pc = "returned" /\ ~training) =>
          /\ DOMAIN ret[3] = {}
          /\ calls[Len(calls)].fn = "post_processor"
          /\ LET a == calls[Len(calls)].args
             IN ret[2] = post_processor(a[1], a[2], a[3])
    /\ (pc = "returned" /\ training) =>
          /\ DOMAIN ret[3] # {}
          /\ ret[2][1] # "result"
    /\ (pc # "idle" /\ training) => ~Invoked("post_processor")

C1_Witness ==
    /\ pc = "returned" /\ ~training /\ two_branch /\ clsnet_inds_ # None
    /\ DOMAIN ret[3] = {} /\ ret[2][1] = "result"

(* C2: a training call returns exactly the keys loss_classifier,
   loss_box_reg, reconst_loss (single branch) plus loss_classifier_2nd and
   loss_box_reg_2nd (two-branch), whatever the selector; reconst_loss is what
   the primary predictor returned and the _2nd values are what the secondary
   loss evaluator returned. *)
C2_LossKeys ==
    (pc = "returned" /\ training) =>
       /\ DOMAIN ret[3] = {"loss_classifier", "loss_box_reg", "reconst_loss"}
                          \cup (IF two_branch THEN SecondaryKeys ELSE {})
       /\ LET a == TheCall("predictor").args
          IN ret[3].reconst_loss = predictor(a[1], a[2]).reconst_loss
       /\ two_branch =>
             LET a == TheCall("loss_evaluator_2nd").args
                 r == loss_evaluator("loss_evaluator_2nd", a[1][1], a[2][1])
             IN /\ ret[3].loss_classifier_2nd = r.loss_classifier
                /\ ret[3].loss_box_reg_2nd = r.loss_box_reg

C2_Witness ==
    /\ pc = "returned" /\ training /\ two_branch /\ clsnet_inds_ # None
    /\ Cardinality(DOMAIN ret[3]) = 5

(* C3 as stated: the secondary evaluator's subsample is invoked on the
   proposals passed to forward (and the same targets), as the primary one is. *)
C3_SecondarySubsamplesInput ==
    \A i \in 1..Len(calls) :
       calls[i].fn = "loss_evaluator_2nd.subsample" =>
          calls[i].args = <<args.proposals, args.targets>>

(* C3 amended: the secondary evaluator's subsample is invoked, right after
   the primary one, on the value the primary evaluator's subsample returned
   on this call (never on the proposals passed to forward) and on the same
   targets. *)
C3_SecondarySubsamplesPrimaryOutput ==
    \A i \in 1..Len(calls) :
       calls[i].fn = "loss_evaluator_2nd.subsample" =>
          /\ i = 2
          /\ calls[1].fn = "loss_evaluator.subsample"
          /\ calls[1].args = <<args.proposals, args.targets>>
          /\ \E d \in 1..NumDraws :
                calls[i].args[1] = subsample("loss_evaluator", calls[1].args[1],
                                             calls[1].args[2], d)
          /\ calls[i].args[1] # args.proposals
          /\ calls[i].args[2] = args.targets

C3_Witness ==
    /\ pc = "returned" /\ training /\ two_branch
    /\ Invoked("loss_evaluator_2nd.subsample")
    /\ locals.proposals_2nd[3] = locals.proposals

(* C4: a training call returns, as second value, the value the primary
   evaluator's subsample produced on this call: not the proposals passed in,
   not the secondary branch's subsampled set; the primary feature extractor
   was fed that same value. *)
C4_ReturnsPrimarySubsample ==
    (pc = "returned" /\ training) =>
       /\ \E d \in 1..NumDraws :
             ret[2] = subsample("loss_evaluator", args.proposals, args.targets, d)
       /\ ret[2] # args.proposals
       /\ ret[2] # locals.proposals_2nd
       /\ TheCall("feature_extractor").args[2] = ret[2]

C4_Witness ==
    /\ pc = "returned" /\ training /\ two_branch
    /\ ret[2][2] = "loss_evaluator"
    /\ locals.proposals_2nd # Undef

(* C5: in inference the pair handed to the post-processor is the secondary
   predictor's (applied to the secondary extractor's features) exactly when
   two-branch is enabled and the selector is unset; otherwise it is the
   primary predictor's and the secondary extractor and predictor are not
   invoked. *)
C5_InferenceSource ==
    (pc # "idle" /\ ~training) =>
       IF two_branch /\ clsnet_inds_ = None
       THEN Invoked("post_processor") =>
               LET a == TheCall("post_processor").args
                   r == predictor_2nd(feature_extractor("feature_extractor_2nd",
                                                        args.features, args.proposals))
               IN /\ a[1] = r.class_logits
                  /\ a[2] = r.box_regression
                  /\ Fns = <<"feature_extractor", "predictor",
                             "feature_extractor_2nd", "predictor_2nd", "post_processor">>
       ELSE /\ ~Invoked("feature_extractor_2nd")
            /\ ~Invoked("predictor_2nd")
            /\ Invoked("post_processor") =>
                  LET a == TheCall("post_processor").args
                      r == predictor(feature_extractor("feature_extractor",
                                                       args.features, args.proposals),
                                     clsnet_inds_)
                  IN /\ a[1] = r.class_logits
                     /\ a[2] = r.box_regression

C5_Witness ==
    /\ pc = "returned" /\ ~training /\ two_branch /\ clsnet_inds_ = None
    /\ ret[2][2][2] = "predictor_2nd"

(* C6: no step of forward changes the selector, the two-branch flag, the
   mode flag or the caller's features, proposals and targets; and an
   inference call that follows an inference call with the same inputs under
   the same selector returns the same triple. *)
C6_NoHiddenMutation ==
    [][ /\ pc' # "idle" =>
             /\ clsnet_inds_' = clsnet_inds_
             /\ two_branch' = two_branch
             /\ training' = training
             /\ pc \notin Rest => args' = args
        /\ ( /\ pc' = "returned" /\ ~training' /\ pc \notin Rest
             /\ prev # NoPrev
             /\ prev.features = args'.features
             /\ prev.proposals = args'.proposals
             /\ prev.targets = args'.targets
             /\ prev.clsnet_inds_ = clsnet_inds_' ) =>
              /\ ret' = prev.ret
              /\ DOMAIN ret'[3] = {}
      ]_vars

C6_Witness ==
    /\ pc = "returned" /\ ~training /\ two_branch /\ clsnet_inds_ # None
    /\ prev # NoPrev
    /\ prev.ret = ret
    /\ locals.proposals = args.proposals

(* C7: with two-branch disabled the secondary extractor, predictor and loss
   evaluator are not constructed and not invoked, no _2nd key is returned,
   and the collaborator sequence and the returned triple are the
   single-branch ones. *)
C7_SingleBranch ==
    ~two_branch =>
       /\ constructed \cap SecondaryFields = {}
       /\ \A i \in 1..Len(calls) : calls[i].fn \notin SecondaryFns
       /\ IsPrefix(Fns, IF training THEN SingleBranchTrainingOrder
                                    ELSE SingleBranchInferenceOrder)
       /\ pc = "returned" =>
             /\ DOMAIN ret[3] \cap SecondaryKeys = {}
             /\ Fns = (IF training THEN SingleBranchTrainingOrder
                                   ELSE SingleBranchInferenceOrder)
             /\ LET p == IF training THEN TheCall("feature_extractor").args[2]
                                     ELSE args.proposals
                    x == feature_extractor("feature_extractor", args.features, p)
                    r == predictor(x, clsnet_inds_)
                    l == loss_evaluator("loss_evaluator", r.class_logits, r.box_regression)
                IN ret = IF training
                         THEN <<x, p, [loss_classifier |-> l.loss_classifier,
                                       loss_box_reg |-> l.loss_box_reg,
                                       reconst_loss |-> r.reconst_loss]>>
                         ELSE <<x, post_processor(r.class_logits, r.box_regression, p),
                                EmptyDict>>

C7_Witness ==
    /\ pc = "returned" /\ ~two_branch /\ training /\ clsnet_inds_ = None
    /\ Len(calls) = 4

(* C8: an inference call invokes no subsample and no loss computation; when
   it returns, the post-processor has been invoked exactly once, with the
   proposals passed to forward, and the first value returned is the primary
   extractor's feature, also when the secondary branch overrode the logits. *)
C8_InferencePath ==
    (pc # "idle" /\ ~training) =>
       /\ \A i \in 1..Len(calls) : calls[i].fn \notin (SubsampleFns \cup LossFns)
       /\ Count("post_processor") <= 1
       /\ Invoked("post_processor") => TheCall("post_processor").args[3] = args.proposals
       /\ pc = "returned" =>
             /\ Count("post_processor") = 1
             /\ ret[1] = feature_extractor("feature_extractor", args.features, args.proposals)

C8_Witness ==
    /\ pc = "returned" /\ ~training /\ two_branch /\ clsnet_inds_ = None
    /\ Invoked("feature_extractor_2nd")
    /\ ret[1][2] = "feature_extractor"

(* C9: gradient tracking is off exactly while the subsampling block is being
   executed; it is on again before the primary feature extraction and after a
   subsample call failed; every extractor, predictor, loss and post-processor
   invocation ran with gradient tracking on, every subsample with it off. *)
C9_NoGradScope ==
    /\ grad_enabled <=> pc \notin {"l48", "l50", "l51"}
    /\ \A i \in 1..Len(calls) : calls[i].grad <=> calls[i].fn \notin SubsampleFns

C9_Witness ==
    /\ pc = "raised" /\ training /\ two_branch
    /\ Len(calls) = 2
    /\ calls[2].fn = "loss_evaluator_2nd.subsample"
    /\ ~calls[2].grad
    /\ grad_enabled

(* C10: in a training call the collaborators are invoked once each in the
   order primary subsample, (secondary subsample), primary extraction,
   primary prediction, (secondary extraction on the secondary proposals,
   secondary prediction, secondary loss), primary loss. *)
C10_TrainingOrder ==
    (pc # "idle" /\ training) =>
       LET order == IF two_branch THEN TwoBranchTrainingOrder
                                  ELSE SingleBranchTrainingOrder
       IN /\ IsPrefix(Fns, order)
          /\ pc = "returned" => Fns = order
          /\ Invoked("feature_extractor_2nd") =>
                /\ TheCall("feature_extractor_2nd").args[2] = locals.proposals_2nd
                /\ locals.proposals_2nd[2] = "loss_evaluator_2nd"

C10_Witness ==
    /\ pc = "returned" /\ training /\ two_branch /\ clsnet_inds_ = None
    /\ Len(calls) = 8

====
